---- MODULE Spec2Model ----
(***************************************************************************)
(* HerasCycle: the password-derived encryption vault (src/lib/HeraVault.ts *)
(* and its v96 / v98 variants), the journal reducer (src/lib/store.ts) and *)
(* the session layer of the v100.8 application (HeraApp): startup, auth,   *)
(* explicit lock, idle timeout, debounced and manual saves.                *)
(*                                                                         *)
(* Representation.  A byte is a number 0..255 and a buffer a sequence of   *)
(* bytes.  A base64 text is a sequence of sextets 0..63 with 64 for '='.   *)
(* A JS string that is only compared is a TLA+ string; a password is the   *)
(* sequence of its character codes.  An optional value (T | null) is the   *)
(* empty sequence or a one-element sequence.  A call that may throw yields *)
(* [ok |-> TRUE, value |-> v] or [ok |-> FALSE, error |-> message].        *)
(***************************************************************************)
EXTENDS Integers, Sequences, FiniteSets, Bags, TLC

\* ------------------------------------------------------------------ bounds
MaxClock == 1
MaxSaves == 2
MaxAuths == 1
MaxEdits == 2
MaxLocks == 3
MaxLoads == 2

\* ------------------------------------------------------- program constants
saltLen == 16
ivLen == 12
iterations == 600000
MinPasswordLen == 4
DefaultTemp == 365
TempStep == 1

None == <<>>
Some(x) == <<x>>
Ok(v) == [ok |-> TRUE, value |-> v]
Err(m) == [ok |-> FALSE, error |-> m]

\* ------------------------------------------------------------ base64 codec
PadChar == 64

RECURSIVE btoa(_)
btoa(bytes) ==
  IF Len(bytes) = 0 THEN <<>>
  ELSE IF Len(bytes) = 1 THEN
    << bytes[1] \div 4, (bytes[1] % 4) * 16, PadChar, PadChar >>
  ELSE IF Len(bytes) = 2 THEN
    << bytes[1] \div 4, (bytes[1] % 4) * 16 + bytes[2] \div 16,
       (bytes[2] % 16) * 4, PadChar >>
  ELSE
    << bytes[1] \div 4, (bytes[1] % 4) * 16 + bytes[2] \div 16,
       (bytes[2] % 16) * 4 + bytes[3] \div 64, bytes[3] % 64 >>
    \o btoa(SubSeq(bytes, 4, Len(bytes)))

bufferToBase64(buffer) == btoa(buffer)

\* mutant: only one trailing '=' is removed
StripPadding_one(t) ==
  IF Len(t) > 0 /\ Len(t) % 4 = 0 /\ t[Len(t)] = PadChar
  THEN SubSeq(t, 1, Len(t) - 1)
  ELSE t

StripPadding(t) ==
  IF Len(t) > 0 /\ Len(t) % 4 = 0 /\ t[Len(t)] = PadChar
  THEN IF t[Len(t) - 1] = PadChar THEN SubSeq(t, 1, Len(t) - 2)
                                  ELSE SubSeq(t, 1, Len(t) - 1)
  ELSE t

RECURSIVE DecodeSextets(_)
DecodeSextets(t) ==
  IF Len(t) = 0 THEN <<>>
  ELSE IF Len(t) = 2 THEN << t[1] * 4 + t[2] \div 16 >>
  ELSE IF Len(t) = 3 THEN
    << t[1] * 4 + t[2] \div 16, (t[2] % 16) * 16 + t[3] \div 4 >>
  ELSE
    << t[1] * 4 + t[2] \div 16, (t[2] % 16) * 16 + t[3] \div 4,
       (t[3] % 4) * 64 + t[4] >>
    \o DecodeSextets(SubSeq(t, 5, Len(t)))

\* window.atob: the forgiving-base64 decode; throws InvalidCharacterError
atob(text) ==
  LET t == StripPadding(text) IN
  IF Len(t) % 4 = 1 \/ (\E i \in 1..Len(t) : t[i] = PadChar)
  THEN Err("InvalidCharacterError")
  ELSE Ok(DecodeSextets(t))

\* mutant: the character codes are read as 7-bit ASCII
base64ToBuffer_ascii(field) ==
  IF field = None THEN Err("InvalidCharacterError")
  ELSE LET r == atob(field[1])
       IN IF r.ok THEN Ok([ i \in 1..Len(r.value) |-> r.value[i] % 128 ]) ELSE r

\* an absent field reaches atob as the 9-character string "undefined"
base64ToBuffer(field) ==
  IF field = None THEN Err("InvalidCharacterError") ELSE atob(field[1])

\* --------------------------------------------------------- journal (types)
Themes == << "blush", "serenity", "nature" >>
Units == << "C", "F" >>
Languages == << "en", "es", "fr" >>
Flows == << "none", "spotting", "light", "medium", "heavy" >>
Mucus == << "none", "dry", "sticky", "creamy", "eggwhite", "watery" >>
Cervix == << "low_hard", "med_firm", "high_soft" >>
LHResults == << "negative", "faint", "equal", "peak" >>
Names == << "Hera" >>
Dates == << "2024-01-05", "2024-01-06" >>
Notes == << "" >>

\* temperature: tenths of a degree; JS null is the value NullTemp
NullTemp == 0

Index(table, s) == CHOOSE i \in 1..Len(table) : table[i] = s
Range(seq) == { seq[i] : i \in 1..Len(seq) }

\* ------------------------------------------------ JSON of the journal state
\* JSON.stringify(AppState) followed by TextEncoder.encode: the text is a
\* byte sequence, one byte per scalar, strings through their code tables.
EncodeDay(d) ==
  << Index(Dates, d.date), IF d.temperature = NullTemp THEN 0 ELSE d.temperature - 300,
     Index(Mucus, d.mucus), Index(Flows, d.flow), Index(Cervix, d.cervix),
     Index(LHResults, d.lhTest), d.stressLevel, Index(Notes, d.notes) >>

DayWidth == 8

RECURSIVE EncodeDays(_)
EncodeDays(days) ==
  IF Len(days) = 0 THEN <<>> ELSE EncodeDay(Head(days)) \o EncodeDays(Tail(days))

JSON_stringify_state(s) ==
  << Index(Names, s.profile.name), Index(Themes, s.profile.theme),
     Index(Units, s.profile.unit), Index(Languages, s.profile.lang),
     Len(s.cycleData) >>
  \o EncodeDays(s.cycleData)
  \o << s.lastSynced, IF s.unsavedChanges THEN 1 ELSE 0 >>

InTable(table, c) == c \in 1..Len(table)

DayWellFormed(b) ==
  /\ InTable(Dates, b[1]) /\ InTable(Mucus, b[3]) /\ InTable(Flows, b[4])
  /\ InTable(Cervix, b[5]) /\ InTable(LHResults, b[6]) /\ InTable(Notes, b[8])

DecodeDay(b) ==
  [ date |-> Dates[b[1]], temperature |-> IF b[2] = 0 THEN NullTemp ELSE b[2] + 300,
    mucus |-> Mucus[b[3]], flow |-> Flows[b[4]], cervix |-> Cervix[b[5]],
    lhTest |-> LHResults[b[6]], stressLevel |-> b[7], notes |-> Notes[b[8]] ]

\* TextDecoder.decode followed by JSON.parse; throws SyntaxError
JSON_parse_state(bytes) ==
  IF Len(bytes) < 7 THEN Err("SyntaxError")
  ELSE
    LET n == bytes[5]
        day(i) == SubSeq(bytes, 6 + (i - 1) * DayWidth, 5 + i * DayWidth)
    IN
    IF \/ Len(bytes) # 7 + n * DayWidth
       \/ ~ InTable(Names, bytes[1]) \/ ~ InTable(Themes, bytes[2])
       \/ ~ InTable(Units, bytes[3]) \/ ~ InTable(Languages, bytes[4])
       \/ bytes[Len(bytes)] \notin {0, 1}
       \/ \E i \in 1..n : ~ DayWellFormed(day(i))
    THEN Err("SyntaxError")
    ELSE Ok([ profile |-> [ name |-> Names[bytes[1]], theme |-> Themes[bytes[2]],
                            unit |-> Units[bytes[3]], lang |-> Languages[bytes[4]] ],
              cycleData |-> [ i \in 1..n |-> DecodeDay(day(i)) ],
              lastSynced |-> bytes[Len(bytes) - 1],
              unsavedChanges |-> bytes[Len(bytes)] = 1 ])

\* ------------------------------------------------- JSON of stored documents
\* A stored text is either the JSON text of a value or text that does not
\* parse; JSON.parse throws SyntaxError on the latter.
JSON_stringify(v) == [ text |-> "json", value |-> v ]
JSON_parse(t) == IF t.text = "json" THEN Ok(t.value) ELSE Err("SyntaxError")

\* ------------------------------------------------------------ Web Crypto
\* mutant: the key depends on the salt only
deriveKey_ignoresPassword(password, salt) == [ pw |-> <<>>, salt |-> salt ]

\* PBKDF2 (SHA-256, 600000 iterations) as an ideal KDF: deterministic and
\* injective in (password, salt).
deriveKey(password, salt) == [ pw |-> password, salt |-> salt ]

\* crypto.subtle.exportKey("raw", key): the key as bytes
exportKey(key) == << Len(key.pw) >> \o key.pw \o key.salt

\* crypto.subtle.digest("SHA-256", b): an ideal (collision-free) hash
digest(b) == [ i \in 1..Len(b) |-> (b[Len(b) + 1 - i] + 83) % 256 ]

\* AES-GCM as an ideal AEAD: encrypt is injective in (key, iv, plaintext) and
\* decrypt accepts exactly the ciphertexts encrypt produces under that key
\* and iv; every other buffer fails with OperationError.
encrypt(key, iv, plaintext) == plaintext \o exportKey(key) \o iv \o plaintext

\* mutant: the authentication tag is not verified
decrypt_unauthenticated(key, iv, data) ==
  LET head == Len(exportKey(key)) + Len(iv)
      n == (Len(data) - head) \div 2
  IN IF Len(data) >= head /\ SubSeq(data, n + 1, n + head) = exportKey(key) \o iv
     THEN Ok(SubSeq(data, 1, n)) ELSE Err("OperationError")

decrypt(key, iv, data) ==
  LET head == Len(exportKey(key)) + Len(iv)
      n == (Len(data) - head) \div 2
      plaintext == SubSeq(data, 1, n)
  IN IF Len(data) >= head /\ encrypt(key, iv, plaintext) = data
     THEN Ok(plaintext) ELSE Err("OperationError")

\* -------------------------------------------------- HeraVault (lib, v1.0)
Field(obj, name) == IF name \in DOMAIN obj THEN Some(obj[name]) ELSE None

Faults == { "none", "crypto", "storage" }

\* mutant: the iv is a constant and not the getRandomValues draw
lock_fixedIv(data, password, salt, iv, now, fault) ==
  IF fault # "none" THEN Err("Security Breach: Encryption Failed.")
  ELSE
    LET key == deriveKey(password, salt)
        zeroIv == [ i \in 1..ivLen |-> 0 ]
        encodedData == JSON_stringify_state(data)
        ciphertext == encrypt(key, zeroIv, encodedData)
        vaultArtifact == [ salt |-> bufferToBase64(salt),
                           iv |-> bufferToBase64(zeroIv),
                           data |-> bufferToBase64(ciphertext),
                           version |-> "v1.0-forensic",
                           timestamp |-> now ]
    IN Ok(JSON_stringify(vaultArtifact))

\* HeraVault.lock: the text written under HERA_VAULT_CORE, or the error
\* thrown; salt and iv are the two getRandomValues draws, now is Date.now().
lock(data, password, salt, iv, now, fault) ==
  IF fault # "none" THEN Err("Security Breach: Encryption Failed.")
  ELSE
    LET key == deriveKey(password, salt)
        encodedData == JSON_stringify_state(data)
        ciphertext == encrypt(key, iv, encodedData)
        vaultArtifact == [ salt |-> bufferToBase64(salt),
                           iv |-> bufferToBase64(iv),
                           data |-> bufferToBase64(ciphertext),
                           version |-> "v1.0-forensic",
                           timestamp |-> now ]
    IN Ok(JSON_stringify(vaultArtifact))

\* HeraVault.lock of the server-side-guarded copy of the class: Ok(None)
\* when it returned without writing, Ok(Some(text)) when it wrote text to
\* the slot, or the error thrown; hasWindow is typeof window !== 'undefined'.
lock_guarded(data, password, salt, iv, now, fault, hasWindow) ==
  IF ~ hasWindow THEN Ok(None)
  ELSE LET r == lock(data, password, salt, iv, now, fault)
       IN IF r.ok THEN Ok(Some(r.value)) ELSE r

\* The part of unlock that runs before the first await: parse and decode.
unlockDecode(stored) ==
  LET parsed == JSON_parse(stored) IN
  IF ~ parsed.ok THEN parsed
  ELSE
    LET vault == parsed.value
        salt == base64ToBuffer(Field(vault, "salt"))
        iv == base64ToBuffer(Field(vault, "iv"))
        data == base64ToBuffer(Field(vault, "data"))
    IN IF ~ salt.ok THEN salt
       ELSE IF ~ iv.ok THEN iv
       ELSE IF ~ data.ok THEN data
       ELSE Ok([ salt |-> salt.value, iv |-> iv.value, data |-> data.value,
                 authHash |-> Field(vault, "authHash") ])

\* The part of unlock after key derivation: decrypt and parse the journal.
unlockOpen(fields, password) ==
  LET key == deriveKey(password, fields.salt)
      decrypted == decrypt(key, fields.iv, fields.data)
  IN IF ~ decrypted.ok THEN decrypted ELSE JSON_parse_state(decrypted.value)

\* HeraVault.unlock(password) with `stored` the content of the slot: null
\* for an empty slot, the journal, or the one error of the catch block.
unlock(stored, password) ==
  IF stored = None THEN Ok(None)
  ELSE
    LET fields == unlockDecode(stored[1])
        opened == IF fields.ok THEN unlockOpen(fields.value, password) ELSE fields
    IN IF opened.ok THEN Ok(Some(opened.value))
       ELSE Err("ACCESS_DENIED: Decryption Failed.")

\* ------------------------------------------------------- HeraVault (v96)
authHashOf(password, salt) ==
  bufferToBase64(digest(exportKey(deriveKey(password, salt))))

lock_v96(data, password, salt, iv) ==
  IF Len(password) = 0 THEN Err("Password Required")
  ELSE
    LET key == deriveKey(password, salt)
        ciphertext == encrypt(key, iv, JSON_stringify_state(data))
    IN Ok(JSON_stringify([ salt |-> bufferToBase64(salt),
                           iv |-> bufferToBase64(iv),
                           authHash |-> authHashOf(password, salt),
                           data |-> bufferToBase64(ciphertext),
                           version |-> "v96-forensic" ]))

\* mutant: the ciphertext is decrypted before the hash is compared
unlockRun_v96_decryptsFirst(vaultStr, password) ==
  LET fields == unlockDecode(vaultStr) IN
  IF ~ fields.ok THEN [ result |-> Err("CORRUPT_VAULT"), calls |-> <<>> ]
  ELSE LET opened == unlockOpen(fields.value, password) IN
       IF ~ opened.ok
       THEN [ result |-> Err("CORRUPT_VAULT"), calls |-> << "deriveKey", "decrypt" >> ]
       ELSE IF Some(authHashOf(password, fields.value.salt)) # fields.value.authHash
       THEN [ result |-> Err("INVALID_PASSWORD"),
              calls |-> << "deriveKey", "decrypt", "exportKey", "digest" >> ]
       ELSE [ result |-> opened,
              calls |-> << "deriveKey", "decrypt", "exportKey", "digest" >> ]

\* one run of unlock (v96): what it returns or throws, and the crypto.subtle
\* operations it invoked, in order
unlockRun_v96(vaultStr, password) ==
  LET fields == unlockDecode(vaultStr) IN
  IF ~ fields.ok THEN [ result |-> Err("CORRUPT_VAULT"), calls |-> <<>> ]
  ELSE IF Some(authHashOf(password, fields.value.salt)) # fields.value.authHash
  THEN [ result |-> Err("INVALID_PASSWORD"),
         calls |-> << "deriveKey", "exportKey", "digest" >> ]
  ELSE LET opened == unlockOpen(fields.value, password)
       IN [ result |-> IF opened.ok THEN opened ELSE Err("CORRUPT_VAULT"),
            calls |-> << "deriveKey", "exportKey", "digest", "decrypt" >> ]

unlock_v96(vaultStr, password) == unlockRun_v96(vaultStr, password).result

\* ----------------------------------------------------- HeraSecurity (v98)
lock_v98(data, password, salt, iv) ==
  IF Len(password) = 0 THEN Err("Invalid Password")
  ELSE
    LET key == deriveKey(password, salt)
        ciphertext == encrypt(key, iv, JSON_stringify_state(data))
    IN Ok(JSON_stringify([ salt |-> bufferToBase64(salt),
                           iv |-> bufferToBase64(iv),
                           authHash |-> authHashOf(password, salt),
                           data |-> bufferToBase64(ciphertext),
                           version |-> "v98-gold" ]))

\* parse and decode run outside the try block: their errors escape as thrown
unlockRun_v98(vaultStr, password) ==
  LET fields == unlockDecode(vaultStr) IN
  IF ~ fields.ok THEN [ result |-> fields, calls |-> <<>> ]
  ELSE IF Some(authHashOf(password, fields.value.salt)) # fields.value.authHash
  THEN [ result |-> Err("INVALID_CREDENTIALS"),
         calls |-> << "deriveKey", "exportKey", "digest" >> ]
  ELSE LET opened == unlockOpen(fields.value, password)
       IN [ result |-> IF opened.ok THEN opened ELSE Err("DECRYPTION_FAILED"),
            calls |-> << "deriveKey", "exportKey", "digest", "decrypt" >> ]

unlock_v98(vaultStr, password) == unlockRun_v98(vaultStr, password).result

\* --------------------------------------------------- HeraSecurity (v100)
lock_v100(data, password, salt, iv) ==
  IF Len(password) = 0 THEN Err("Invalid Password")
  ELSE
    LET key == deriveKey(password, salt)
        ciphertext == encrypt(key, iv, JSON_stringify_state(data))
    IN Ok(JSON_stringify([ salt |-> bufferToBase64(salt),
                           iv |-> bufferToBase64(iv),
                           authHash |-> authHashOf(password, salt),
                           data |-> bufferToBase64(ciphertext),
                           version |-> "v100-platinum" ]))

\* parse and decode, and the hash comparison, run outside the try block
unlockRun_v100(vaultStr, password) ==
  LET fields == unlockDecode(vaultStr) IN
  IF ~ fields.ok THEN [ result |-> fields, calls |-> <<>> ]
  ELSE IF Some(authHashOf(password, fields.value.salt)) # fields.value.authHash
  THEN [ result |-> Err("INVALID_CREDENTIALS"),
         calls |-> << "deriveKey", "exportKey", "digest" >> ]
  ELSE LET opened == unlockOpen(fields.value, password)
       IN [ result |-> IF opened.ok THEN opened ELSE Err("DECRYPTION_FAILED"),
            calls |-> << "deriveKey", "exportKey", "digest", "decrypt" >> ]

unlock_v100(vaultStr, password) == unlockRun_v100(vaultStr, password).result

\* ------------------------------------------------------ reducer (store.ts)
\* DEFAULT_STATE is built when the module loads: lastSynced is Date.now()
\* of the page load.
DEFAULT_STATE(loadedAt) ==
  [ profile |-> [ name |-> "Hera", theme |-> "blush", unit |-> "C", lang |-> "en" ],
    cycleData |-> <<>>,
    lastSynced |-> loadedAt,
    unsavedChanges |-> FALSE ]

\* { ...a, ...b } for records
Spread(a, b) ==
  [ k \in DOMAIN a \cup DOMAIN b |-> IF k \in DOMAIN b THEN b[k] ELSE a[k] ]

\* Array.prototype.findIndex, 1-based; 0 when absent
findIndex(days, date) ==
  IF \E i \in 1..Len(days) : days[i].date = date
  THEN CHOOSE i \in 1..Len(days) :
         /\ days[i].date = date
         /\ \A j \in 1..(i - 1) : days[j].date # date
  ELSE 0

\* mutant: MARK_SAVED stamps lastSynced and leaves the flag as it is
appReducer_savedKeepsFlag(state, action, now, loadedAt) ==
  CASE action.type = "LOAD_STATE" ->
         Spread(action.payload, [ unsavedChanges |-> FALSE ])
    [] action.type = "UPDATE_PROFILE" ->
         [ state EXCEPT !.profile = Spread(state.profile, action.payload),
                        !.unsavedChanges = TRUE ]
    [] action.type = "UPDATE_CYCLE_DAY" ->
         LET existingIndex == findIndex(state.cycleData, action.payload.date)
             newData == IF existingIndex >= 1
                        THEN [ state.cycleData EXCEPT ![existingIndex] = action.payload ]
                        ELSE Append(state.cycleData, action.payload)
         IN [ state EXCEPT !.cycleData = newData, !.unsavedChanges = TRUE ]
    [] action.type = "RESET_APP" -> DEFAULT_STATE(loadedAt)
    [] action.type = "MARK_SAVED" -> [ state EXCEPT !.lastSynced = now ]
    [] OTHER -> state

\* mutant: UPDATE_CYCLE_DAY also stamps lastSynced
appReducer_updateTouchesSynced(state, action, now, loadedAt) ==
  CASE action.type = "LOAD_STATE" ->
         Spread(action.payload, [ unsavedChanges |-> FALSE ])
    [] action.type = "UPDATE_PROFILE" ->
         [ state EXCEPT !.profile = Spread(state.profile, action.payload),
                        !.unsavedChanges = TRUE ]
    [] action.type = "UPDATE_CYCLE_DAY" ->
         LET existingIndex == findIndex(state.cycleData, action.payload.date)
             newData == IF existingIndex >= 1
                        THEN [ state.cycleData EXCEPT ![existingIndex] = action.payload ]
                        ELSE Append(state.cycleData, action.payload)
         IN [ state EXCEPT !.cycleData = newData, !.unsavedChanges = TRUE,
                           !.lastSynced = now ]
    [] action.type = "RESET_APP" -> DEFAULT_STATE(loadedAt)
    [] action.type = "MARK_SAVED" ->
         [ state EXCEPT !.unsavedChanges = FALSE, !.lastSynced = now ]
    [] OTHER -> state

\* mutant: LOAD_STATE installs the payload with the flag it carries
appReducer_loadKeepsFlag(state, action, now, loadedAt) ==
  CASE action.type = "LOAD_STATE" -> action.payload
    [] action.type = "UPDATE_PROFILE" ->
         [ state EXCEPT !.profile = Spread(state.profile, action.payload),
                        !.unsavedChanges = TRUE ]
    [] action.type = "UPDATE_CYCLE_DAY" ->
         LET existingIndex == findIndex(state.cycleData, action.payload.date)
             newData == IF existingIndex >= 1
                        THEN [ state.cycleData EXCEPT ![existingIndex] = action.payload ]
                        ELSE Append(state.cycleData, action.payload)
         IN [ state EXCEPT !.cycleData = newData, !.unsavedChanges = TRUE ]
    [] action.type = "RESET_APP" -> DEFAULT_STATE(loadedAt)
    [] action.type = "MARK_SAVED" ->
         [ state EXCEPT !.unsavedChanges = FALSE, !.lastSynced = now ]
    [] OTHER -> state

\* mutant: UPDATE_CYCLE_DAY always pushes the payload
appReducer_alwaysAppends(state, action, now, loadedAt) ==
  CASE action.type = "LOAD_STATE" ->
         Spread(action.payload, [ unsavedChanges |-> FALSE ])
    [] action.type = "UPDATE_PROFILE" ->
         [ state EXCEPT !.profile = Spread(state.profile, action.payload),
                        !.unsavedChanges = TRUE ]
    [] action.type = "UPDATE_CYCLE_DAY" ->
         [ state EXCEPT !.cycleData = Append(state.cycleData, action.payload),
                        !.unsavedChanges = TRUE ]
    [] action.type = "RESET_APP" -> DEFAULT_STATE(loadedAt)
    [] action.type = "MARK_SAVED" ->
         [ state EXCEPT !.unsavedChanges = FALSE, !.lastSynced = now ]
    [] OTHER -> state

appReducer(state, action, now, loadedAt) ==
  CASE action.type = "LOAD_STATE" ->
         Spread(action.payload, [ unsavedChanges |-> FALSE ])
    [] action.type = "UPDATE_PROFILE" ->
         [ state EXCEPT !.profile = Spread(state.profile, action.payload),
                        !.unsavedChanges = TRUE ]
    [] action.type = "UPDATE_CYCLE_DAY" ->
         LET existingIndex == findIndex(state.cycleData, action.payload.date)
             newData == IF existingIndex >= 1
                        THEN [ state.cycleData EXCEPT ![existingIndex] = action.payload ]
                        ELSE Append(state.cycleData, action.payload)
         IN [ state EXCEPT !.cycleData = newData, !.unsavedChanges = TRUE ]
    [] action.type = "RESET_APP" -> DEFAULT_STATE(loadedAt)
    [] action.type = "MARK_SAVED" ->
         [ state EXCEPT !.unsavedChanges = FALSE, !.lastSynced = now ]
    [] OTHER -> state

\* ===================================================== session (HeraApp)
VARIABLES
  clock,        \* Date.now()
  loadedAt,     \* Date.now() when the page (and DEFAULT_STATE) was loaded
  status,       \* 'loading' | 'auth' | 'app'
  authMode,     \* 'login' | 'setup'
  passwordRef,  \* passwordRef.current: None or Some(password)
  state,        \* the reducer's journal state
  extConfig,    \* the ExtConfig React state
  vaultSlot,    \* localStorage['HERA_VAULT_CORE']: None or Some(text)
  extSlot,      \* localStorage['HERA_EXT_CONFIG']: None or Some(text)
  idleTimeout,  \* TRUE while the idle setTimeout is pending
  saveTimer,    \* the pending debounce setTimeout, with the closure it runs
  saves,        \* HeraVault.lock calls of saveToVault that are in flight
  auths,        \* handleAuth calls that are in flight
  edits,        \* number of journal mutations dispatched so far
  locks,        \* number of HeraVault.lock calls started so far
  loads,        \* number of page loads so far
  lastOp,       \* history: the outcome of the step taken last, if it was the
                \* mount effect or the end of an auth or save; else "other"
  probe         \* the vault functions applied to chosen inputs

appVars == << clock, loadedAt, status, authMode, passwordRef, state, extConfig,
              vaultSlot, extSlot, idleTimeout, saveTimer, saves, auths, edits,
              locks, loads, lastOp >>
vars == << clock, loadedAt, status, authMode, passwordRef, state, extConfig,
           vaultSlot, extSlot, idleTimeout, saveTimer, saves, auths, edits,
           locks, loads, lastOp, probe >>

\* inputs
PwA == << 112, 119, 49, 50 >>
PwB == << 104, 101, 114, 97 >>
Passwords == { PwA, PwB }
\* the password chosen at the first setup; a setup submitted while an
\* artifact exists may choose either, and logins try both
SetupPasswords == { PwA }
RandBytes == { 17, 200 }
SessionRandBytes == { 17 }
Salts == { [ i \in 1..saltLen |-> b ] : b \in RandBytes }
IVs == { [ i \in 1..ivLen |-> b ] : b \in RandBytes }
\* outcomes of the two getRandomValues calls of one lock in a session
Draws == { [ salt |-> [ i \in 1..saltLen |-> b ], iv |-> [ i \in 1..ivLen |-> 255 - b ] ] :
           b \in SessionRandBytes }
ThemeChoices == { "serenity" }
SessionDates == { "2024-01-05" }

DEFAULT_EXT == [ aiActive |-> FALSE, apiKey |-> "", liabilityAccepted |-> FALSE ]

ProbeIdle ==
  [ phase |-> "idle", variant |-> "v1.0", data |-> DEFAULT_STATE(0), p1 |-> <<>>,
    p2 |-> <<>>, artifact |-> None, tampered |-> FALSE, result |-> None,
    salt |-> <<>>, iv |-> <<>>, previous |-> None, opener |-> "" ]

Init ==
  /\ clock = 0
  /\ loadedAt = 0
  /\ status = "loading"
  /\ authMode = "login"
  /\ passwordRef = None
  /\ state = DEFAULT_STATE(0)
  /\ extConfig = DEFAULT_EXT
  /\ vaultSlot = None
  /\ extSlot = None
  /\ idleTimeout = FALSE
  /\ saveTimer = None
  /\ saves = EmptyBag
  /\ auths = <<>>
  /\ edits = 0
  /\ locks = 0
  /\ loads = 1
  /\ lastOp = "other"
  /\ probe = ProbeIdle

\* Date.now() read after an await or a page load: time has passed
later == IF clock < MaxClock THEN clock + 1 ELSE clock

\* the debounce effect, deps [state.unsavedChanges]: when the flag changed
\* between two renders the cleanup clears the old timer and, if the flag is
\* now set, a new timer is started that closes over this render's
\* saveToVault (its state and status).
debounceEffect(oldState, newState, newStatus, timer) ==
  IF oldState.unsavedChanges = newState.unsavedChanges THEN timer
  ELSE IF newState.unsavedChanges
       THEN Some([ state |-> newState, status |-> newStatus ])
       ELSE None

\* mutant: the mount effect always chooses login mode
InitEffect_alwaysLogin ==
  /\ status = "loading"
  /\ authMode' = "login"
  /\ status' = "auth"
  /\ extConfig' = IF extSlot # None /\ JSON_parse(extSlot[1]).ok
                  THEN JSON_parse(extSlot[1]).value ELSE extConfig
  /\ lastOp' = "init"
  /\ UNCHANGED << clock, loadedAt, passwordRef, state, vaultSlot, extSlot,
                  idleTimeout, saveTimer, saves, auths, edits, locks, loads, probe >>

\* the mount effect: choose the auth mode from the vault slot, read ExtConfig
InitEffect ==
  /\ status = "loading"
  /\ authMode' = IF vaultSlot # None THEN "login" ELSE "setup"
  /\ status' = "auth"
  /\ extConfig' = IF extSlot # None /\ JSON_parse(extSlot[1]).ok
                  THEN JSON_parse(extSlot[1]).value ELSE extConfig
  /\ lastOp' = "init"
  /\ UNCHANGED << clock, loadedAt, passwordRef, state, vaultSlot, extSlot,
                  idleTimeout, saveTimer, saves, auths, edits, locks, loads, probe >>

\* window.location.reload(), or closing and reopening the page
reloaded ==
  /\ loads < MaxLoads
  /\ loads' = loads + 1
  /\ clock' = later
  /\ loadedAt' = later
  /\ status' = "loading"
  /\ authMode' = "login"
  /\ passwordRef' = None
  /\ state' = DEFAULT_STATE(later)
  /\ extConfig' = DEFAULT_EXT
  /\ idleTimeout' = FALSE
  /\ saveTimer' = None
  /\ saves' = EmptyBag
  /\ auths' = <<>>
  /\ UNCHANGED << edits, locks, probe >>

Reload ==
  /\ reloaded
  /\ lastOp' = "other"
  /\ UNCHANGED << vaultSlot, extSlot >>

\* the Emergency Reset button of the login screen
EmergencyReset ==
  /\ status = "auth" /\ authMode = "login"
  /\ vaultSlot' = None
  /\ extSlot' = None
  /\ reloaded
  /\ lastOp' = "other"

\* mousemove / touchstart / keydown
resetIdleTimer ==
  /\ status # "loading"
  /\ idleTimeout' = (status = "app")
  /\ lastOp' = "other"
  /\ UNCHANGED << clock, loadedAt, status, authMode, passwordRef, state,
                  extConfig, vaultSlot, extSlot, saveTimer, saves, auths,
                  edits, locks, loads, probe >>

\* the callback of the idle setTimeout
IdleTimerFire ==
  /\ idleTimeout
  /\ idleTimeout' = FALSE
  /\ passwordRef' = None
  /\ status' = "auth"
  /\ authMode' = "login"
  /\ lastOp' = "other"
  /\ UNCHANGED << clock, loadedAt, state, extConfig, vaultSlot, extSlot,
                  saveTimer, saves, auths, edits, locks, loads, probe >>

\* mutant: the lock button leaves the password in memory
LockButton_keepsPassword ==
  /\ status = "app"
  /\ status' = "auth"
  /\ lastOp' = "other"
  /\ UNCHANGED << clock, loadedAt, authMode, passwordRef, state, extConfig, vaultSlot,
                  extSlot, idleTimeout, saveTimer, saves, auths, edits, locks, loads, probe >>

\* the lock button of the header
LockButton ==
  /\ status = "app"
  /\ status' = "auth"
  /\ passwordRef' = None
  /\ lastOp' = "other"
  /\ UNCHANGED << clock, loadedAt, authMode, state, extConfig, vaultSlot,
                  extSlot, idleTimeout, saveTimer, saves, auths, edits, locks, loads, probe >>

RemoveAt(seq, i) == SubSeq(seq, 1, i - 1) \o SubSeq(seq, i + 1, Len(seq))

\* AuthScreen.handleSubmit and the part of handleAuth before its first
\* await: in setup mode HeraVault.lock draws salt and iv, in login mode
\* HeraVault.unlock reads the slot.
AuthSubmit(pass) ==
  /\ status = "auth"
  /\ Len(pass) >= MinPasswordLen
  /\ Len(auths) < MaxAuths
  /\ \/ /\ authMode = "setup"
        /\ pass \in (IF vaultSlot = None THEN SetupPasswords ELSE Passwords)
        /\ locks < MaxLocks
        /\ locks' = locks + 1
        /\ \E rnd \in Draws :
             auths' = Append(auths, [ mode |-> "setup", pass |-> pass,
                                      salt |-> rnd.salt, iv |-> rnd.iv,
                                      stored |-> None ])
     \/ /\ authMode = "login"
        /\ UNCHANGED locks
        /\ auths' = Append(auths, [ mode |-> "login", pass |-> pass,
                                    salt |-> <<>>, iv |-> <<>>, stored |-> vaultSlot ])
  /\ lastOp' = "other"
  /\ UNCHANGED << clock, loadedAt, status, authMode, passwordRef, state,
                  extConfig, vaultSlot, extSlot, idleTimeout, saveTimer, saves,
                  edits, loads, probe >>

\* the tail of handleAuth shared by both modes
authenticated(payload, pass) ==
  /\ state' = appReducer(state, [ type |-> "LOAD_STATE", payload |-> payload ],
                         later, loadedAt)
  /\ saveTimer' = debounceEffect(state, state', "app", saveTimer)
  /\ passwordRef' = Some(pass)
  /\ status' = "app"

\* handleAuth, setup mode, after the awaits of HeraVault.lock
AuthFinishSetup(i, fault) ==
  /\ i \in 1..Len(auths)
  /\ auths[i].mode = "setup"
  /\ auths' = RemoveAt(auths, i)
  /\ LET a == auths[i]
         newState == DEFAULT_STATE(loadedAt)
         r == lock(newState, a.pass, a.salt, a.iv, later, fault)
     IN IF r.ok
        THEN /\ vaultSlot' = Some(r.value)
             /\ extConfig' = Spread(extConfig, [ liabilityAccepted |-> TRUE ])
             /\ extSlot' = Some(JSON_stringify(extConfig'))
             /\ authenticated(newState, a.pass)
             /\ lastOp' = "createOk"
        ELSE /\ lastOp' = "createFail"
             /\ UNCHANGED << vaultSlot, extConfig, extSlot, state, saveTimer,
                             passwordRef, status >>
  /\ clock' = later
  /\ UNCHANGED << loadedAt, authMode, idleTimeout, saves, edits, locks, loads, probe >>

\* mutant: a failed open erases the stored artifact
AuthFinishLogin_wipesOnFailure(i) ==
  /\ i \in 1..Len(auths)
  /\ auths[i].mode = "login"
  /\ auths' = RemoveAt(auths, i)
  /\ LET a == auths[i]
         decrypted == unlock(a.stored, a.pass)
     IN IF decrypted.ok /\ decrypted.value # None
        THEN /\ authenticated(decrypted.value[1], a.pass)
             /\ lastOp' = "openOk"
             /\ UNCHANGED vaultSlot
        ELSE /\ lastOp' = "openFail"
             /\ vaultSlot' = None
             /\ UNCHANGED << state, saveTimer, passwordRef, status >>
  /\ clock' = later
  /\ UNCHANGED << loadedAt, authMode, extConfig, extSlot,
                  idleTimeout, saves, edits, locks, loads, probe >>

\* mutant: a null result of unlock does not throw; only the dispatch is
\* skipped, the password is kept and the app is shown
AuthFinishLogin_nullOpens(i) ==
  /\ i \in 1..Len(auths)
  /\ auths[i].mode = "login"
  /\ auths' = RemoveAt(auths, i)
  /\ LET a == auths[i]
         decrypted == unlock(a.stored, a.pass)
     IN IF decrypted.ok
        THEN /\ IF decrypted.value # None
                THEN authenticated(decrypted.value[1], a.pass)
                ELSE /\ passwordRef' = Some(a.pass)
                     /\ status' = "app"
                     /\ UNCHANGED << state, saveTimer >>
             /\ lastOp' = "openOk"
        ELSE /\ lastOp' = "openFail"
             /\ UNCHANGED << state, saveTimer, passwordRef, status >>
  /\ clock' = later
  /\ UNCHANGED << loadedAt, authMode, extConfig, vaultSlot, extSlot,
                  idleTimeout, saves, edits, locks, loads, probe >>

\* handleAuth, login mode, after the awaits of HeraVault.unlock
AuthFinishLogin(i) ==
  /\ i \in 1..Len(auths)
  /\ auths[i].mode = "login"
  /\ auths' = RemoveAt(auths, i)
  /\ LET a == auths[i]
         decrypted == unlock(a.stored, a.pass)
     IN IF decrypted.ok /\ decrypted.value # None
        THEN /\ authenticated(decrypted.value[1], a.pass)
             /\ lastOp' = "openOk"
        ELSE /\ lastOp' = "openFail"
             /\ UNCHANGED << state, saveTimer, passwordRef, status >>
  /\ clock' = later
  /\ UNCHANGED << loadedAt, authMode, extConfig, vaultSlot, extSlot,
                  idleTimeout, saves, edits, locks, loads, probe >>

\* saveToVault up to the first await of HeraVault.lock; `closure` holds the
\* state and status of the render that created this saveToVault.
saveToVault(closure) ==
  IF passwordRef = None \/ closure.status # "app"
  THEN /\ lastOp' = "saveSkip"
       /\ UNCHANGED << saves, locks >>
  ELSE /\ BagCardinality(saves) < MaxSaves
       /\ locks < MaxLocks
       /\ locks' = locks + 1
       /\ \E rnd \in Draws :
            saves' = saves (+) SetToBag({ [ data |-> closure.state,
                                           password |-> passwordRef[1],
                                           salt |-> rnd.salt, iv |-> rnd.iv ] })
       /\ lastOp' = "other"

\* mutant: a save that is skipped still dispatches MARK_SAVED
SaveTimerFire_marksSaved ==
  /\ saveTimer # None
  /\ saveTimer' = None
  /\ saveToVault(saveTimer[1])
  /\ state' = IF passwordRef = None
              THEN appReducer(state, [ type |-> "MARK_SAVED" ], clock, loadedAt)
              ELSE state
  /\ UNCHANGED << clock, loadedAt, status, authMode, passwordRef,
                  extConfig, vaultSlot, extSlot, idleTimeout, auths, edits,
                  loads, probe >>

\* the debounce setTimeout(saveToVault, 1000) fires
SaveTimerFire ==
  /\ saveTimer # None
  /\ saveTimer' = None
  /\ saveToVault(saveTimer[1])
  /\ UNCHANGED << clock, loadedAt, status, authMode, passwordRef, state,
                  extConfig, vaultSlot, extSlot, idleTimeout, auths, edits,
                  loads, probe >>

\* the Save button of the log tab
SaveButton ==
  /\ status = "app"
  /\ saveToVault([ state |-> state, status |-> status ])
  /\ UNCHANGED << clock, loadedAt, status, authMode, passwordRef, state,
                  extConfig, vaultSlot, extSlot, idleTimeout, saveTimer, auths,
                  edits, loads, probe >>

\* mutant: MARK_SAVED is dispatched after the try block, also on failure
SaveFinish_clearsOnFailure(s, fault) ==
  /\ s \in BagToSet(saves)
  /\ saves' = saves (-) SetToBag({ s })
  /\ LET r == lock(s.data, s.password, s.salt, s.iv, later, fault)
     IN /\ vaultSlot' = IF r.ok THEN Some(r.value) ELSE vaultSlot
        /\ state' = appReducer(state, [ type |-> "MARK_SAVED" ], later, loadedAt)
        /\ saveTimer' = debounceEffect(state, state', status, saveTimer)
        /\ lastOp' = IF r.ok THEN "saveOk" ELSE "saveFail"
  /\ clock' = later
  /\ UNCHANGED << loadedAt, status, authMode, passwordRef, extConfig,
                  extSlot, idleTimeout, auths, edits, locks, loads, probe >>

\* mutant: the slot is written only while it is empty
SaveFinish_keepsFirstArtifact(s, fault) ==
  /\ s \in BagToSet(saves)
  /\ saves' = saves (-) SetToBag({ s })
  /\ LET r == lock(s.data, s.password, s.salt, s.iv, later, fault)
     IN IF r.ok
        THEN /\ vaultSlot' = IF vaultSlot = None THEN Some(r.value) ELSE vaultSlot
             /\ state' = appReducer(state, [ type |-> "MARK_SAVED" ], later, loadedAt)
             /\ saveTimer' = debounceEffect(state, state', status, saveTimer)
             /\ lastOp' = "saveOk"
        ELSE /\ lastOp' = "saveFail"
             /\ UNCHANGED << vaultSlot, state, saveTimer >>
  /\ clock' = later
  /\ UNCHANGED << loadedAt, status, authMode, passwordRef, extConfig,
                  extSlot, idleTimeout, auths, edits, locks, loads, probe >>

\* saveToVault after the awaits of HeraVault.lock
SaveFinish(s, fault) ==
  /\ s \in BagToSet(saves)
  /\ saves' = saves (-) SetToBag({ s })
  /\ LET r == lock(s.data, s.password, s.salt, s.iv, later, fault)
     IN IF r.ok
        THEN /\ vaultSlot' = Some(r.value)
             /\ state' = appReducer(state, [ type |-> "MARK_SAVED" ], later, loadedAt)
             /\ saveTimer' = debounceEffect(state, state', status, saveTimer)
             /\ lastOp' = "saveOk"
        ELSE /\ lastOp' = "saveFail"
             /\ UNCHANGED << vaultSlot, state, saveTimer >>
  /\ clock' = later
  /\ UNCHANGED << loadedAt, status, authMode, passwordRef, extConfig,
                  extSlot, idleTimeout, auths, edits, locks, loads, probe >>

\* currentDayEntry: the entry of the selected date or the blank entry
currentDayEntry(s, selectedDate) ==
  IF findIndex(s.cycleData, selectedDate) >= 1
  THEN s.cycleData[findIndex(s.cycleData, selectedDate)]
  ELSE [ date |-> selectedDate, temperature |-> NullTemp, mucus |-> "none",
         flow |-> "none", notes |-> "", cervix |-> "low_hard",
         lhTest |-> "negative", stressLevel |-> 1 ]

dispatched(action) ==
  /\ state' = appReducer(state, action, clock, loadedAt)
  /\ saveTimer' = debounceEffect(state, state', status, saveTimer)

\* the minus / plus buttons of the temperature card
TemperatureButton(selectedDate, delta) ==
  /\ status = "app"
  /\ edits < MaxEdits
  /\ edits' = edits + 1
  /\ LET cur == currentDayEntry(state, selectedDate)
         base == IF cur.temperature = NullTemp THEN DefaultTemp ELSE cur.temperature
     IN dispatched([ type |-> "UPDATE_CYCLE_DAY",
                     payload |-> [ cur EXCEPT !.temperature = base + delta ] ])
  /\ lastOp' = "other"
  /\ UNCHANGED << clock, loadedAt, status, authMode, passwordRef, extConfig,
                  vaultSlot, extSlot, idleTimeout, saves, auths, locks, loads, probe >>

\* the theme buttons of the settings tab
ThemeButton(theme) ==
  /\ status = "app"
  /\ edits < MaxEdits
  /\ edits' = edits + 1
  /\ dispatched([ type |-> "UPDATE_PROFILE", payload |-> [ theme |-> theme ] ])
  /\ lastOp' = "other"
  /\ UNCHANGED << clock, loadedAt, status, authMode, passwordRef, extConfig,
                  vaultSlot, extSlot, idleTimeout, saves, auths, locks, loads, probe >>

\* The Backup button: the content of the downloaded hera_backup.json.
BackupData(s) == JSON_stringify(s)

\* handleRestoreBackup with a file holding the plaintext backup of the
\* journal (the Backup Data button), confirmed by the user
RestoreBackup ==
  /\ \/ status = "app"
     \/ status = "auth" /\ authMode = "setup"
  /\ LET content == BackupData(state)
     IN IF JSON_parse(content).ok
        THEN /\ vaultSlot' = Some(content)
             /\ reloaded
             /\ lastOp' = "other"
             /\ UNCHANGED extSlot
        ELSE UNCHANGED vars

Next ==
  \/ InitEffect
  \/ Reload
  \/ EmergencyReset
  \/ resetIdleTimer
  \/ IdleTimerFire
  \/ LockButton
  \/ \E pass \in Passwords : AuthSubmit(pass)
  \/ \E i \in 1..MaxAuths, fault \in Faults : AuthFinishSetup(i, fault)
  \/ \E i \in 1..MaxAuths : AuthFinishLogin(i)
  \/ SaveTimerFire
  \/ SaveButton
  \/ \E s \in BagToSet(saves), fault \in Faults : SaveFinish(s, fault)
  \/ \E d \in SessionDates, delta \in { 0 - TempStep, TempStep } : TemperatureButton(d, delta)
  \/ \E t \in ThemeChoices : ThemeButton(t)
  \/ RestoreBackup

Spec == Init /\ [][Next]_vars

\* ============================================ the vault functions on inputs
EmptyPassword == <<>>
VaultPasswords == { EmptyPassword, PwA, PwB }
Variants == { "v1.0", "v96", "v98", "v100" }
\* the variants whose artifacts carry the auxiliary hash
HashVariants == { "v96", "v98", "v100" }
Flips == { 1, 128 }

DayOf(date, temperature) ==
  [ date |-> date, temperature |-> temperature, mucus |-> "none", flow |-> "none",
    notes |-> "", cervix |-> "low_hard", lhTest |-> "negative", stressLevel |-> 1 ]

WithDays(days, dirty) ==
  [ DEFAULT_STATE(0) EXCEPT !.cycleData = days, !.unsavedChanges = dirty ]

VaultStates ==
  { DEFAULT_STATE(0),
    DEFAULT_STATE(1),
    WithDays(<< DayOf("2024-01-05", 364) >>, TRUE),
    WithDays(<< DayOf("2024-01-06", NullTemp), DayOf("2024-01-05", 366) >>, FALSE),
    [ WithDays(<< DayOf("2024-01-05", 365) >>, TRUE) EXCEPT !.profile.theme = "nature" ] }

lockOf(variant, data, password, salt, iv) ==
  CASE variant = "v1.0" -> lock(data, password, salt, iv, 0, "none")
    [] variant = "v96" -> lock_v96(data, password, salt, iv)
    [] variant = "v98" -> lock_v98(data, password, salt, iv)
    [] variant = "v100" -> lock_v100(data, password, salt, iv)

\* the outcome of unlock: [ok, value: None | Some(journal)] or [ok, error]
unlockOf(variant, text, password) ==
  CASE variant = "v1.0" -> unlock(Some(text), password)
    [] variant = "v96" ->
         LET r == unlock_v96(text, password)
         IN IF r.ok THEN Ok(Some(r.value)) ELSE r
    [] variant = "v98" ->
         LET r == unlock_v98(text, password)
         IN IF r.ok THEN Ok(Some(r.value)) ELSE r
    [] variant = "v100" ->
         LET r == unlock_v100(text, password)
         IN IF r.ok THEN Ok(Some(r.value)) ELSE r

ProbeLock(variant, data, password, salt, iv) ==
  /\ probe.phase = "idle"
  /\ LET r == lockOf(variant, data, password, salt, iv)
     IN probe' = [ probe EXCEPT
                     !.phase = IF r.ok THEN "locked" ELSE "rejected",
                     !.variant = variant, !.data = data, !.p1 = password,
                     !.salt = salt, !.iv = iv,
                     !.artifact = IF r.ok THEN Some(r.value) ELSE None ]
  /\ UNCHANGED appVars

\* a second lock call with the same journal and password (a reseal): the
\* artifact of the first call is kept in probe.previous
ProbeRelock(salt, iv) ==
  /\ probe.phase = "locked"
  /\ ~ probe.tampered
  /\ LET r == lockOf(probe.variant, probe.data, probe.p1, salt, iv)
     IN /\ r.ok
        /\ probe' = [ probe EXCEPT !.phase = "relocked",
                                   !.previous = probe.artifact,
                                   !.artifact = Some(r.value),
                                   !.salt = salt, !.iv = iv ]
  /\ UNCHANGED appVars

\* one byte of the ciphertext in the artifact's data field is changed
ProbeTamper(i, flip) ==
  /\ probe.phase = "locked"
  /\ ~ probe.tampered
  /\ LET text == probe.artifact[1]
         decoded == base64ToBuffer(Some(text.value.data))
         ct == decoded.value
     IN /\ decoded.ok
        /\ i \in 1..Len(ct)
        /\ probe' = [ probe EXCEPT
                        !.tampered = TRUE,
                        !.artifact = Some(JSON_stringify(
                          [ text.value EXCEPT !.data = bufferToBase64(
                              [ ct EXCEPT ![i] = (ct[i] + flip) % 256 ]) ])) ]
  /\ UNCHANGED appVars

ProbeUnlock(password) ==
  /\ probe.phase = "locked"
  /\ probe' = [ probe EXCEPT
                  !.phase = "unlocked", !.p2 = password,
                  !.result = Some(unlockOf(probe.variant, probe.artifact[1], password)) ]
  /\ UNCHANGED appVars

\* an artifact written by HeraVault.ts (no authHash field) is opened by the
\* unlock of a later version
ProbeUnlockOlder(opener, password) ==
  /\ probe.phase = "locked"
  /\ ~ probe.tampered
  /\ probe.variant = "v1.0"
  /\ opener \in HashVariants
  /\ probe' = [ probe EXCEPT
                  !.phase = "migrated", !.p2 = password, !.opener = opener,
                  !.result = Some(unlockOf(opener, probe.artifact[1], password)) ]
  /\ UNCHANGED appVars

\* stored texts that are no artifact: text that is not JSON, and the
\* artifact with one of its required fields missing
MalformedKinds == { "notJson", "noSalt", "noIv", "noData" }

Without(obj, name) == [ k \in DOMAIN obj \ { name } |-> obj[k] ]

Malformed(text, kind) ==
  CASE kind = "notJson" -> [ text |-> "garbage", value |-> <<>> ]
    [] kind = "noSalt" -> JSON_stringify(Without(JSON_parse(text).value, "salt"))
    [] kind = "noIv" -> JSON_stringify(Without(JSON_parse(text).value, "iv"))
    [] kind = "noData" -> JSON_stringify(Without(JSON_parse(text).value, "data"))

\* unlock is called while the stored text is malformed
ProbeUnlockMalformed(kind, password) ==
  /\ probe.phase = "locked"
  /\ ~ probe.tampered
  /\ LET text == Malformed(probe.artifact[1], kind)
     IN probe' = [ probe EXCEPT
                     !.phase = "malformed", !.p2 = password, !.opener = kind,
                     !.artifact = Some(text),
                     !.result = Some(unlockOf(probe.variant, text, password)) ]
  /\ UNCHANGED appVars

\* the version string of an artifact of a format this code does not know
FutureVersion == "vX-future"

\* unlock is called on an artifact whose version field names an unknown
\* format; salt, iv and data are as lock wrote them
ProbeUnlockFuture(password) ==
  /\ probe.phase = "locked"
  /\ ~ probe.tampered
  /\ LET text == JSON_stringify([ JSON_parse(probe.artifact[1]).value
                                    EXCEPT !.version = FutureVersion ])
     IN probe' = [ probe EXCEPT
                     !.phase = "future", !.p2 = password,
                     !.artifact = Some(text),
                     !.result = Some(unlockOf(probe.variant, text, password)) ]
  /\ UNCHANGED appVars

\* a call of the guarded lock, in a browser or where window is undefined
ProbeLockGuarded(data, password, salt, iv, fault, hasWindow) ==
  /\ probe.phase = "idle"
  /\ LET r == lock_guarded(data, password, salt, iv, 0, fault, hasWindow)
     IN probe' = [ probe EXCEPT
                     !.phase = "guarded", !.variant = "v1.0", !.data = data,
                     !.p1 = password, !.salt = salt, !.iv = iv,
                     !.artifact = IF r.ok THEN r.value ELSE None,
                     !.result = Some(r) ]
  /\ UNCHANGED appVars

ProbeReset ==
  /\ probe.phase \in { "unlocked", "rejected", "relocked", "migrated", "malformed",
                       "future", "guarded", "decoded" }
  /\ probe' = ProbeIdle
  /\ UNCHANGED appVars

MaxCipherLen == 96

VaultNext ==
  \/ \E variant \in Variants, data \in VaultStates, password \in VaultPasswords,
        salt \in Salts, iv \in IVs : ProbeLock(variant, data, password, salt, iv)
  \/ \E i \in 1..MaxCipherLen, flip \in Flips : ProbeTamper(i, flip)
  \/ \E password \in VaultPasswords : ProbeUnlock(password)
  \/ \E salt \in Salts, iv \in IVs : ProbeRelock(salt, iv)
  \/ \E opener \in HashVariants, password \in VaultPasswords :
       ProbeUnlockOlder(opener, password)
  \/ \E kind \in MalformedKinds, password \in VaultPasswords :
       ProbeUnlockMalformed(kind, password)
  \/ \E password \in VaultPasswords : ProbeUnlockFuture(password)
  \/ \E data \in VaultStates, password \in VaultPasswords, salt \in Salts,
        iv \in IVs, fault \in Faults, hasWindow \in BOOLEAN :
       ProbeLockGuarded(data, password, salt, iv, fault, hasWindow)
  \/ ProbeReset

VaultSpec == Init /\ [][VaultNext]_vars

\* the error each variant throws for a wrong password / for corrupt data
CredentialsError(variant) ==
  CASE variant = "v1.0" -> "ACCESS_DENIED: Decryption Failed."
    [] variant = "v96" -> "INVALID_PASSWORD"
    [] variant = "v98" -> "INVALID_CREDENTIALS"
    [] variant = "v100" -> "INVALID_CREDENTIALS"

CorruptError(variant) ==
  CASE variant = "v1.0" -> "ACCESS_DENIED: Decryption Failed."
    [] variant = "v96" -> "CORRUPT_VAULT"
    [] variant = "v98" -> "DECRYPTION_FAILED"
    [] variant = "v100" -> "DECRYPTION_FAILED"

ProbeOutcome == probe.result[1]

\* C1 (round trip): an untampered artifact of lock(s, p), p non-empty,
\* unlocked with p returns a journal equal to s, in every variant.
C1_RoundTrip ==
  ( /\ probe.phase = "unlocked"
    /\ ~ probe.tampered
    /\ probe.p1 # EmptyPassword
    /\ probe.p2 = probe.p1 )
  => ( ProbeOutcome.ok /\ ProbeOutcome.value = Some(probe.data) )

C1_Witness ==
  /\ probe.phase = "unlocked"
  /\ probe.variant = "v1.0"
  /\ ~ probe.tampered
  /\ probe.p1 = PwA /\ probe.p2 = PwA
  /\ probe.data.cycleData = <<>>
  /\ ProbeOutcome.ok /\ ProbeOutcome.value = Some(probe.data)

\* C2 (wrong password): an untampered artifact of lock(s, p1) unlocked with
\* p2 # p1 returns no journal: unlock throws the variant's credentials error.
C2_WrongPassword ==
  ( /\ probe.phase = "unlocked"
    /\ ~ probe.tampered
    /\ probe.p2 # probe.p1 )
  => ( ~ ProbeOutcome.ok /\ ProbeOutcome.error = CredentialsError(probe.variant) )

C2_Witness ==
  /\ probe.phase = "unlocked"
  /\ probe.variant = "v96"
  /\ ~ probe.tampered
  /\ probe.p1 = PwA /\ probe.p2 = PwB
  /\ ~ ProbeOutcome.ok /\ ProbeOutcome.error = "INVALID_PASSWORD"

\* C3 as claimed (tamper detection): with one ciphertext byte changed, unlock
\* with the correct password fails with an error that is the corrupt-vault
\* error and differs from the credentials error.
C3_TamperDistinctError ==
  ( /\ probe.phase = "unlocked"
    /\ probe.tampered
    /\ probe.p2 = probe.p1 )
  => ( /\ ~ ProbeOutcome.ok
       /\ ProbeOutcome.error = CorruptError(probe.variant)
       /\ ProbeOutcome.error # CredentialsError(probe.variant) )

\* C3 as amended: with one ciphertext byte changed, unlock with the correct
\* password always fails and returns no journal; the error is distinct from
\* the wrong-password error in the variants with an auth hash (v96
\* CORRUPT_VAULT, v98 and v100 DECRYPTION_FAILED), while HeraVault.ts throws
\* the same ACCESS_DENIED error as for a wrong password.
C3_TamperFails ==
  ( /\ probe.phase = "unlocked"
    /\ probe.tampered
    /\ probe.p2 = probe.p1 )
  => ( /\ ~ ProbeOutcome.ok
       /\ ProbeOutcome.error = CorruptError(probe.variant)
       /\ (probe.variant \in HashVariants
             <=> ProbeOutcome.error # CredentialsError(probe.variant)) )

C3_Witness ==
  /\ probe.phase = "unlocked"
  /\ probe.tampered
  /\ probe.variant = "v1.0"
  /\ probe.p1 = PwA /\ probe.p2 = PwA
  /\ ~ ProbeOutcome.ok
  /\ ProbeOutcome.error = "ACCESS_DENIED: Decryption Failed."

\* ------------------------------------------------------- session claims
\* C4 (a failed save keeps the dirty flag): the step in which an in-flight
\* save ends with HeraVault.lock throwing dispatches no MARK_SAVED and
\* writes nothing: the journal, with its unsavedChanges flag, and the vault
\* slot are as before the step.
C4_FailedSaveKeepsDirty ==
  [][ lastOp' = "saveFail" => (state' = state /\ vaultSlot' = vaultSlot) ]_vars

C4_Witness ==
  /\ lastOp = "saveFail"
  /\ status = "app"
  /\ state.unsavedChanges

\* C5 as claimed (lock transition): every step that takes the session from
\* Unlocked to the auth screen leaves the auth screen in login mode.
C5_LockGoesToLogin ==
  [][ (status = "app" /\ status' = "auth") => authMode' = "login" ]_vars

\* C6 (startup mode selection): right after the mount effect the mode is setup
\* iff the vault slot is empty (login iff it holds something); a submitted
\* password is handled by the path of the mode shown; the session becomes
\* Unlocked only in the step that ends a successful create or open.
C6_StartupMode ==
  /\ [] ( lastOp = "init" =>
            /\ status = "auth"
            /\ (authMode = "setup" <=> vaultSlot = None)
            /\ (authMode = "login" <=> vaultSlot # None) )
  /\ [][ Len(auths') > Len(auths) => auths'[Len(auths')].mode = authMode ]_vars
  /\ [][ (status # "app" /\ status' = "app") =>
           \E i \in 1..Len(auths) :
             /\ auths' = RemoveAt(auths, i)
             /\ \/ auths[i].mode = "setup" /\ lastOp' = "createOk"
                   /\ vaultSlot' # None
                \/ auths[i].mode = "login" /\ lastOp' = "openOk"
                   /\ unlock(auths[i].stored, auths[i].pass).ok ]_vars

C6_Witness ==
  /\ lastOp = "init"
  /\ loads > 1
  /\ vaultSlot # None
  /\ authMode = "login"

\* C7 as claimed (one save at a time): at most one HeraVault.lock call of
\* saveToVault is in flight.
C7_OneSaveInFlight == BagCardinality(saves) <= 1

\* C8 as claimed (debounce): while an automatic save is pending, the state
\* it will seal is the state after the last mutation.
C8_TimerSealsLastState == saveTimer # None => saveTimer[1].state = state

\* C9 (lock while a save is pending): a save that finds no password is
\* abandoned without a write and leaves the journal dirty; a save that ends
\* well has written an artifact that opens to the journal it sealed; the
\* dirty flag is cleared only by such a save or by LOAD_STATE.
C9_LockedSaveWritesOrStaysDirty ==
  /\ [][ lastOp' = "saveSkip" =>
           /\ state' = state /\ state.unsavedChanges
           /\ vaultSlot' = vaultSlot /\ saves' = saves ]_vars
  /\ [][ lastOp' = "saveOk" /\ saves' # saves =>
           \E s \in BagToSet(saves) :
             /\ saves' = saves (-) SetToBag({ s })
             /\ unlock(vaultSlot', s.password) = Ok(Some(s.data)) ]_vars
  /\ [][ (state.unsavedChanges /\ ~ state'.unsavedChanges /\ loads' = loads) =>
           lastOp' \in { "saveOk", "createOk", "openOk" } ]_vars

C9_Witness ==
  /\ lastOp = "saveSkip"
  /\ status = "auth"
  /\ passwordRef = None
  /\ state.unsavedChanges

\* C10 as claimed (idle timeout): whenever the session is Unlocked the
\* inactivity timer is running, so that the window without activity ends
\* the session.
C10_IdleTimerRunsWhileUnlocked == status = "app" => idleTimeout

\* C11 (a failed open changes nothing): the step in which a login attempt
\* ends in failure leaves the stored artifact, the journal, the held
\* password, the screen and its mode as they were, and every password opens
\* the slot after the step exactly as it did before: there is no lockout.
C11_FailedOpenChangesNothing ==
  [][ lastOp' = "openFail" =>
        /\ vaultSlot' = vaultSlot
        /\ state' = state
        /\ passwordRef' = passwordRef
        /\ status' = status /\ authMode' = authMode
        /\ \A p \in Passwords : unlock(vaultSlot', p) = unlock(vaultSlot, p) ]_vars

C11_Witness ==
  /\ lastOp = "openFail"
  /\ status = "auth" /\ authMode = "login"
  /\ passwordRef = None
  /\ vaultSlot # None
  /\ unlock(vaultSlot, PwA).ok
  /\ ~ unlock(vaultSlot, PwB).ok

\* ================================================ the reducer on its actions
\* CycleDay payloads of UPDATE_CYCLE_DAY
ReducerDays ==
  { DayOf(Dates[i], t) : i \in 1..Len(Dates), t \in { NullTemp, DefaultTemp } }

\* a journal as JSON.parse can return it from a decrypted vault: two entries
\* of one date
TwiceDated ==
  WithDays(<< DayOf("2024-01-05", 364), DayOf("2024-01-05", 366) >>, FALSE)

\* AppState payloads of LOAD_STATE
LoadPayloads == VaultStates \cup { TwiceDated }

\* Partial<UserProfile> payloads of UPDATE_PROFILE
ProfilePayloads == { [ theme |-> "serenity" ], [ unit |-> "F", lang |-> "fr" ] }

\* an action whose type is none of the reducer's cases
UnknownAction == [ type |-> "NOT_AN_ACTION" ]

\* dispatch(action): lastOp keeps the action's type and probe.data the state
\* the reducer was applied to
Dispatch(action) ==
  /\ state' = appReducer(state, action, later, loadedAt)
  /\ clock' = later
  /\ lastOp' = action.type
  /\ probe' = [ probe EXCEPT !.phase = "reduced", !.data = state ]
  /\ UNCHANGED << loadedAt, status, authMode, passwordRef, extConfig, vaultSlot,
                  extSlot, idleTimeout, saveTimer, saves, auths, edits, locks,
                  loads >>

ReducerNext ==
  \/ \E payload \in LoadPayloads : Dispatch([ type |-> "LOAD_STATE", payload |-> payload ])
  \/ \E payload \in ProfilePayloads :
       Dispatch([ type |-> "UPDATE_PROFILE", payload |-> payload ])
  \/ \E payload \in ReducerDays :
       Dispatch([ type |-> "UPDATE_CYCLE_DAY", payload |-> payload ])
  \/ Dispatch([ type |-> "RESET_APP" ])
  \/ Dispatch([ type |-> "MARK_SAVED" ])
  \/ Dispatch(UnknownAction)

ReducerSpec == Init /\ [][ReducerNext]_vars

\* C12 (upsert): an UPDATE_CYCLE_DAY step whose date is already in the list
\* puts the payload at the position of that entry and changes nothing else,
\* the length included; one whose date is new appends the payload, the
\* length growing by exactly one.
C12_Upsert ==
  [][ lastOp' = "UPDATE_CYCLE_DAY" =>
        LET old == state.cycleData
            new == state'.cycleData
        IN \E d \in ReducerDays :
             IF \E i \in 1..Len(old) : old[i].date = d.date
             THEN /\ Len(new) = Len(old)
                  /\ \E i \in 1..Len(old) :
                       /\ old[i].date = d.date
                       /\ new = [ old EXCEPT ![i] = d ]
             ELSE /\ Len(new) = Len(old) + 1
                  /\ new = Append(old, d) ]_vars

\* the second of two entries stays, the first was replaced by another
\* payload of its date
C12_Witness ==
  /\ lastOp = "UPDATE_CYCLE_DAY"
  /\ Len(probe.data.cycleData) = 2
  /\ Len(state.cycleData) = 2
  /\ state.cycleData[2] = probe.data.cycleData[2]
  /\ state.cycleData[1] # probe.data.cycleData[1]
  /\ state.cycleData[1].date = probe.data.cycleData[1].date
  /\ state.cycleData[1].date # state.cycleData[2].date

\* C13 as claimed (one entry per date): in every journal state the reducer
\* reaches from the default state no two entries of the list have one date.
C13_OneEntryPerDate ==
  \A i, j \in 1..Len(state.cycleData) :
    state.cycleData[i].date = state.cycleData[j].date => i = j

\* the fields of a stored artifact text
ArtifactOf(text) == JSON_parse(text).value

\* C14 (salt and iv freshness): the artifact of a lock call carries the salt
\* and the iv that call drew; two lock calls with one journal and one
\* password whose draws differ give artifacts that differ in salt, in iv and
\* in ciphertext, and whenever either draw differs the ciphertext and the
\* (derived key, iv) pair differ.
C14_FreshSaltAndIv ==
  probe.phase = "relocked" =>
    LET first == ArtifactOf(probe.previous[1])
        second == ArtifactOf(probe.artifact[1])
        firstSalt == base64ToBuffer(Some(first.salt)).value
        firstIv == base64ToBuffer(Some(first.iv)).value
    IN /\ second.salt = bufferToBase64(probe.salt)
       /\ second.iv = bufferToBase64(probe.iv)
       /\ (probe.salt # firstSalt /\ probe.iv # firstIv) =>
            /\ second.salt # first.salt
            /\ second.iv # first.iv
            /\ second.data # first.data
       /\ (probe.salt # firstSalt \/ probe.iv # firstIv) =>
            /\ second.data # first.data
            /\ << deriveKey(probe.p1, probe.salt), probe.iv >>
                 # << deriveKey(probe.p1, firstSalt), firstIv >>

C14_Witness ==
  /\ probe.phase = "relocked"
  /\ probe.variant = "v1.0"
  /\ probe.p1 = PwA
  /\ ArtifactOf(probe.previous[1]).salt # ArtifactOf(probe.artifact[1]).salt
  /\ ArtifactOf(probe.previous[1]).iv # ArtifactOf(probe.artifact[1]).iv
  /\ ArtifactOf(probe.previous[1]).data # ArtifactOf(probe.artifact[1]).data

\* C15 (single-slot overwrite): the step that ends a successful create or
\* save leaves in the slot exactly the artifact that call produced, and the
\* slot then opens under the call's password to the journal passed to the
\* call, whatever the slot held before.
C15_SlotHoldsNewArtifact ==
  /\ [][ lastOp' = "saveOk" =>
           \E s \in BagToSet(saves) :
             /\ saves' = saves (-) SetToBag({ s })
             /\ vaultSlot' = Some(lock(s.data, s.password, s.salt, s.iv, clock', "none").value)
             /\ unlock(vaultSlot', s.password) = Ok(Some(s.data)) ]_vars
  /\ [][ lastOp' = "createOk" =>
           \E i \in 1..Len(auths) :
             /\ auths' = RemoveAt(auths, i)
             /\ vaultSlot' = Some(lock(DEFAULT_STATE(loadedAt), auths[i].pass,
                                       auths[i].salt, auths[i].iv, clock', "none").value)
             /\ unlock(vaultSlot', auths[i].pass) = Ok(Some(DEFAULT_STATE(loadedAt))) ]_vars

\* a save over the artifact of create: the slot opens to the journal with
\* the one added entry
C15_Witness ==
  /\ lastOp = "saveOk"
  /\ vaultSlot # None
  /\ unlock(vaultSlot, PwA).ok
  /\ unlock(vaultSlot, PwA).value # None
  /\ Len(unlock(vaultSlot, PwA).value[1].cycleData) = 1

\* the journal a pending login finds in the slot it read
SealedJournal(a) == unlock(a.stored, a.pass).value[1]

\* C16 as claimed (restart): the state loaded by a successful open has the
\* dirty flag false, and when the artifact seals a default state the live
\* state is equal to the application's DEFAULT_STATE.
C16_OpenGivesDefaultState ==
  [][ lastOp' = "openOk" =>
        \E i \in 1..Len(auths) :
          /\ auths' = RemoveAt(auths, i)
          /\ ~ state'.unsavedChanges
          /\ (\E t \in 0..MaxClock : SealedJournal(auths[i]) = DEFAULT_STATE(t))
               => state' = DEFAULT_STATE(loadedAt) ]_vars

\* C16 (restart, amended): the state loaded by a successful open is the
\* sealed journal with the dirty flag false, whatever flag was sealed; when
\* the artifact seals the default state of the page load that created it,
\* the live state is DEFAULT_STATE but for lastSynced, which is the load
\* time of that earlier page and not the one of the restarted application.
C16_OpenGivesSealedState ==
  [][ lastOp' = "openOk" =>
        \E i \in 1..Len(auths) :
          /\ auths' = RemoveAt(auths, i)
          /\ state' = [ SealedJournal(auths[i]) EXCEPT !.unsavedChanges = FALSE ]
          /\ \A t \in 0..MaxClock :
               SealedJournal(auths[i]) = DEFAULT_STATE(t)
                 => state' = [ DEFAULT_STATE(loadedAt) EXCEPT !.lastSynced = t ] ]_vars

\* create, restart, open: the live state is the default state of the first
\* page load
C16_Witness ==
  /\ lastOp = "openOk"
  /\ loads > 1
  /\ status = "app"
  /\ loadedAt # 0
  /\ state = DEFAULT_STATE(0)

\* C17 as claimed (empty password): a lock call with the empty password is
\* rejected: it produces no artifact.
C17_EmptyPasswordRejected ==
  (probe.phase \in { "locked", "rejected" } /\ probe.p1 = EmptyPassword)
    => (probe.phase = "rejected" /\ probe.artifact = None)

unlockRunOf(variant, text, password) ==
  CASE variant = "v96" -> unlockRun_v96(text, password)
    [] variant = "v98" -> unlockRun_v98(text, password)
    [] variant = "v100" -> unlockRun_v100(text, password)

\* position of the first occurrence of an operation in a run, 0 when absent
CallIndex(calls, op) ==
  IF \E i \in 1..Len(calls) : calls[i] = op
  THEN CHOOSE i \in 1..Len(calls) :
         calls[i] = op /\ \A j \in 1..(i - 1) : calls[j] # op
  ELSE 0

\* C18 (auth-hash ordering): unlock of an artifact that carries authHash
\* computes the hash of the re-derived key before any decrypt; when the
\* hash differs from the stored one it throws the credentials error and
\* decrypt was never invoked; decrypt is invoked only when the hash matched.
C18_HashBeforeDecrypt ==
  (probe.phase = "unlocked" /\ probe.variant \in HashVariants) =>
    LET text == probe.artifact[1]
        run == unlockRunOf(probe.variant, text, probe.p2)
        stored == ArtifactOf(text)
        salt == base64ToBuffer(Some(stored.salt)).value
        matches == authHashOf(probe.p2, salt) = stored.authHash
    IN /\ "authHash" \in DOMAIN stored
       /\ ProbeOutcome = (IF run.result.ok THEN Ok(Some(run.result.value))
                                           ELSE run.result)
       /\ ~ matches =>
            /\ run.result = Err(CredentialsError(probe.variant))
            /\ CallIndex(run.calls, "decrypt") = 0
       /\ CallIndex(run.calls, "decrypt") > 0 =>
            /\ matches
            /\ CallIndex(run.calls, "digest") > 0
            /\ CallIndex(run.calls, "digest") < CallIndex(run.calls, "decrypt")

\* a wrong password on a v96 artifact: refused on the hash, no decrypt
C18_Witness ==
  /\ probe.phase = "unlocked"
  /\ probe.variant = "v96"
  /\ probe.p1 = PwA /\ probe.p2 = PwB
  /\ ProbeOutcome = Err("INVALID_PASSWORD")
  /\ unlockRun_v96(probe.artifact[1], probe.p2).calls = << "deriveKey", "exportKey", "digest" >>

\* C19 as claimed (artifact without authHash): an artifact that has no
\* authHash field opens with the correct password under the unlock of every
\* version, the ones that compare the hash included.
C19_NoHashArtifactOpens ==
  (probe.phase = "migrated" /\ probe.p1 # EmptyPassword /\ probe.p2 = probe.p1)
    => (ProbeOutcome.ok /\ ProbeOutcome.value = Some(probe.data))

\* errors of the platform that unlock lets through as they were thrown
RawExceptions == { "SyntaxError", "InvalidCharacterError", "OperationError" }

\* C20 as claimed (malformed artifact): unlock, with the right password, of a
\* stored text that is not JSON or lacks salt, iv or data fails with an error
\* of its own: not the credentials error, and not an exception of the
\* platform let through.
C20_MalformedHasOwnError ==
  (probe.phase = "malformed" /\ probe.p1 # EmptyPassword /\ probe.p2 = probe.p1) =>
    /\ ~ ProbeOutcome.ok
    /\ ProbeOutcome.error # CredentialsError(probe.variant)
    /\ ProbeOutcome.error \notin RawExceptions

\* C21 as claimed (unsupported version): unlock of an artifact whose version
\* is not one the code knows never returns a journal: it fails.
\* The password is the non-empty one the artifact was sealed with, so no
\* other rule of unlock is in play.
C21_UnknownVersionFails ==
  (probe.phase = "future" /\ probe.p1 # EmptyPassword /\ probe.p2 = probe.p1)
    => ~ ProbeOutcome.ok

\* C22 as claimed (no swallowed error): a lock call that returns normally has
\* written an artifact; otherwise it throws.
C22_LockWritesOrThrows ==
  (probe.phase = "guarded" /\ probe.p1 # EmptyPassword)
    => (ProbeOutcome.ok => probe.artifact # None)

\* C23 as claimed (only the artifact outlives a session): nothing is ever
\* written to persistent storage under a key other than the vault's.
C23_OnlyVaultKeyWritten ==
  extSlot = None

\* the fields lock gives an artifact
ArtifactFields == { "salt", "iv", "data", "authHash", "version", "timestamp" }

\* text is the JSON of an artifact: salt, iv and ciphertext, with at most
\* the auxiliary hash, the version and the timestamp beside them
IsArtifact(text) ==
  /\ JSON_parse(text).ok
  /\ { "salt", "iv", "data" } \subseteq DOMAIN ArtifactOf(text)
  /\ DOMAIN ArtifactOf(text) \subseteq ArtifactFields

\* C24 as claimed (secrets never persisted): whatever the vault slot holds
\* is an artifact (salt, iv, ciphertext, optional hash, version, timestamp)
\* and never the plaintext journal.
C24_SlotHoldsOnlyArtifact ==
  vaultSlot # None => IsArtifact(vaultSlot[1])

\* C25 as claimed (backup is encrypted): whenever the Backup button can be
\* pressed, the file it produces is a sealed artifact and not the plaintext
\* journal.
C25_BackupIsArtifact ==
  status = "app" => IsArtifact(BackupData(state))

\* C30 as claimed (the held password opens the slot): whenever the session
\* is Unlocked the slot holds an artifact, and unlock of it with the
\* password held in memory succeeds.
C30_HeldPasswordOpensSlot ==
  status = "app" =>
    /\ passwordRef # None
    /\ vaultSlot # None
    /\ unlock(vaultSlot, passwordRef[1]).ok
    /\ unlock(vaultSlot, passwordRef[1]).value # None

\* the journal part of a state: everything but lastSynced and unsavedChanges
SameJournal(a, b) == a.profile = b.profile /\ a.cycleData = b.cycleData

\* the stored artifact opens with the held password to the journal in memory
StoredIsCurrent ==
  /\ vaultSlot # None
  /\ passwordRef # None
  /\ LET r == unlock(vaultSlot, passwordRef[1])
     IN r.ok /\ r.value # None /\ SameJournal(r.value[1], state)

\* C26 as claimed (dirty-flag soundness): in an Unlocked state whose dirty
\* flag is false, the stored artifact (when the held password opens it) holds
\* the journal that is in memory.
C26_CleanMeansStored ==
  ( /\ status = "app"
    /\ ~ state.unsavedChanges
    /\ passwordRef # None
    /\ vaultSlot # None
    /\ unlock(vaultSlot, passwordRef[1]).ok )
    => StoredIsCurrent

\* One Unlocked session in which no save fails: first start, setup, edits,
\* debounced saves, with the user active (the idle timer is re-armed and
\* never fires). Timers that are armed fire and awaited calls return.
SessionNext ==
  \/ InitEffect
  \/ resetIdleTimer
  \/ \E pass \in SetupPasswords : AuthSubmit(pass)
  \/ \E i \in 1..MaxAuths : AuthFinishSetup(i, "none")
  \/ SaveTimerFire
  \/ \E s \in BagToSet(saves) : SaveFinish(s, "none")
  \/ \E d \in SessionDates, delta \in { 0 - TempStep, TempStep } : TemperatureButton(d, delta)
  \/ \E t \in ThemeChoices : ThemeButton(t)

SessionSpec ==
  /\ Init
  /\ [][SessionNext]_vars
  /\ WF_vars(InitEffect)
  /\ WF_vars(\E i \in 1..MaxAuths : AuthFinishSetup(i, "none"))
  /\ WF_vars(SaveTimerFire)
  /\ WF_vars(\E s \in BagToSet(saves) : SaveFinish(s, "none"))

\* nothing is pending: no debounce timer, no save and no auth in flight
Quiescent == saveTimer = None /\ saves = EmptyBag /\ auths = << >>

\* C27 as claimed (eventual persistence): in a session that stays Unlocked
\* and whose saves all succeed, once no timer is armed and no save is in
\* flight the stored artifact contains every mutation made so far.
C27_QuiescentIsStored ==
  (status = "app" /\ Quiescent) => StoredIsCurrent

\* C28 as claimed (no fresh vault over an existing one): the create path
\* completes only while the slot is empty.
C28_CreateOnlyIntoEmptySlot ==
  [][ lastOp' = "createOk" => vaultSlot = None ]_vars

\* C29 (password held exactly while Unlocked): the password reference is
\* non-null iff status is 'app'; it takes a new value only in the step of a
\* successful create or open; and every step that leaves 'app' clears it.
C29_PasswordHeldIffUnlocked ==
  /\ [](passwordRef # None <=> status = "app")
  /\ [][ (passwordRef' # None /\ passwordRef' # passwordRef)
           => lastOp' \in { "createOk", "openOk" } ]_vars
  /\ [][ (status = "app" /\ status' # "app") => passwordRef' = None ]_vars

\* a debounce timer armed while Unlocked fired after the lock button (or
\* the idle timeout) and found no password: the session is still locked
C29_Witness ==
  /\ lastOp = "saveSkip"
  /\ status = "auth"
  /\ passwordRef = None
  /\ vaultSlot # None

\* C31 as claimed (the slot holds a usable artifact): whatever the vault
\* slot holds, unlock of it succeeds under some password; a restored backup
\* file of the application can be unlocked.
C31_SlotOpensUnderSomePassword ==
  vaultSlot # None =>
    \E password \in Passwords :
      /\ unlock(vaultSlot, password).ok
      /\ unlock(vaultSlot, password).value # None

\* the action types that change the journal
MutationTypes == { "UPDATE_PROFILE", "UPDATE_CYCLE_DAY" }

\* C32 (dirty-flag transitions of the reducer): a step of UPDATE_PROFILE or
\* UPDATE_CYCLE_DAY ends with unsavedChanges true, a step of LOAD_STATE or
\* MARK_SAVED with unsavedChanges false, a step of RESET_APP with
\* DEFAULT_STATE; so whenever the last action was one of these five, the flag
\* is true exactly when it was a mutation.
C32_DirtyFlagTransitions ==
  /\ [][ /\ lastOp' \in MutationTypes => state'.unsavedChanges
         /\ lastOp' \in { "LOAD_STATE", "MARK_SAVED" } => ~ state'.unsavedChanges
         /\ lastOp' = "RESET_APP" => state' = DEFAULT_STATE(loadedAt) ]_vars
  /\ []( lastOp \in (MutationTypes \cup { "LOAD_STATE", "MARK_SAVED", "RESET_APP" })
           => (state.unsavedChanges <=> lastOp \in MutationTypes) )

\* MARK_SAVED was applied to a dirty state with entries and cleared the flag
C32_Witness ==
  /\ lastOp = "MARK_SAVED"
  /\ probe.phase = "reduced"
  /\ probe.data.unsavedChanges
  /\ Len(probe.data.cycleData) >= 1
  /\ ~ state.unsavedChanges

\* the entries of a list whose date is not the given one, in their order
OtherDates(days, date) ==
  LET Keep(e) == e.date # date IN SelectSeq(days, Keep)

\* C33 (reducer frame conditions): UPDATE_CYCLE_DAY leaves profile,
\* lastSynced and the entries of every other date, in their order, as they
\* were; UPDATE_PROFILE leaves cycleData and the profile fields its payload
\* does not name; MARK_SAVED leaves profile and cycleData; an unknown action
\* leaves the whole state.
C33_ReducerFrame ==
  [][ /\ lastOp' = "UPDATE_CYCLE_DAY" =>
           /\ state'.profile = state.profile
           /\ state'.lastSynced = state.lastSynced
           /\ \E d \in ReducerDays :
                /\ \E i \in 1..Len(state'.cycleData) : state'.cycleData[i] = d
                /\ OtherDates(state'.cycleData, d.date) = OtherDates(state.cycleData, d.date)
      /\ lastOp' = "UPDATE_PROFILE" =>
           /\ state'.cycleData = state.cycleData
           /\ \E payload \in ProfilePayloads :
                /\ \A k \in DOMAIN payload : state'.profile[k] = payload[k]
                /\ \A k \in DOMAIN state.profile \ DOMAIN payload :
                     state'.profile[k] = state.profile[k]
      /\ lastOp' = "MARK_SAVED" =>
           /\ state'.profile = state.profile
           /\ state'.cycleData = state.cycleData
      /\ lastOp' = UnknownAction.type => state' = state ]_vars

\* an UPDATE_CYCLE_DAY of one date was applied to a journal that holds an
\* entry of the other date, a changed profile and a lastSynced stamp
C33_Witness ==
  /\ lastOp = "UPDATE_CYCLE_DAY"
  /\ probe.phase = "reduced"
  /\ \E i \in 1..Len(state.cycleData) : state.cycleData[i].date = "2024-01-06"
  /\ \E i \in 1..Len(state.cycleData) : state.cycleData[i].date = "2024-01-05"
  /\ state.cycleData # probe.data.cycleData
  /\ state.profile.lang = "fr"
  /\ state.lastSynced = 1

\* C34 (a save without a held password is a no-op): when the save callback
\* runs while the password reference is null it starts no lock call, writes
\* nothing to storage and dispatches nothing: the slot, the journal with its
\* dirty flag and the calls in flight are as before.
C34_SaveWithoutPasswordIsNoOp ==
  [][ (passwordRef = None /\ (SaveTimerFire \/ SaveButton)) =>
        /\ lastOp' = "saveSkip"
        /\ vaultSlot' = vaultSlot
        /\ extSlot' = extSlot
        /\ state' = state
        /\ saves' = saves
        /\ locks' = locks
        /\ passwordRef' = None ]_vars

\* the debounce timer of an edit fired after locking: the journal is still
\* dirty and the artifact still opens to the journal without that edit
C34_Witness ==
  /\ lastOp = "saveSkip"
  /\ passwordRef = None
  /\ saveTimer = None
  /\ state.unsavedChanges
  /\ vaultSlot # None
  /\ \E password \in Passwords :
       /\ unlock(vaultSlot, password).ok
       /\ ~ SameJournal(unlock(vaultSlot, password).value[1], state)

\* localStorage is shared by the tabs of one origin: another tab of the
\* application runs its Emergency Reset (both keys removed) while this one
\* goes on.
StorageCleared ==
  /\ vaultSlot # None
  /\ vaultSlot' = None
  /\ extSlot' = None
  /\ lastOp' = "other"
  /\ UNCHANGED << clock, loadedAt, status, authMode, passwordRef, state, extConfig,
                  idleTimeout, saveTimer, saves, auths, edits, locks, loads, probe >>

\* A session with one password whose storage another tab may clear: setup,
\* lock, idle timeout, reload and login.
OtherTabNext ==
  \/ InitEffect
  \/ Reload
  \/ resetIdleTimer
  \/ IdleTimerFire
  \/ LockButton
  \/ \E pass \in SetupPasswords : AuthSubmit(pass)
  \/ \E i \in 1..MaxAuths : AuthFinishSetup(i, "none")
  \/ \E i \in 1..MaxAuths : AuthFinishLogin(i)
  \/ StorageCleared

OtherTabSpec == Init /\ [][OtherTabNext]_vars

\* C35 (unlock with an empty slot): with nothing stored unlock returns null
\* whatever the password, without an error; the login attempt that got this
\* result ends as a failure: no LOAD_STATE (the journal is as before), the
\* screen and the password reference are as before, nothing is written.
C35_EmptySlotLoginFails ==
  [][ \A i \in 1..Len(auths) :
        (auths[i].mode = "login" /\ auths[i].stored = None /\ AuthFinishLogin(i)) =>
          /\ \A password \in VaultPasswords : unlock(None, password) = Ok(None)
          /\ lastOp' = "openFail"
          /\ status' = status
          /\ passwordRef' = passwordRef
          /\ state' = state
          /\ vaultSlot' = vaultSlot ]_vars

\* a login was submitted after the slot had been emptied and has ended: the
\* auth screen is still shown and no password is held
C35_Witness ==
  /\ lastOp = "openFail"
  /\ vaultSlot = None
  /\ authMode = "login"
  /\ status = "auth"
  /\ passwordRef = None
  /\ auths = << >>

\* ================================================ the base64 codec on bytes
MaxBytes == 3

\* byte values at the edges of the sextet boundaries
CodecBytes == { 0, 1, 63, 64, 128, 255 }

RECURSIVE BytesUpTo(_)
BytesUpTo(n) ==
  IF n = 0 THEN { << >> }
  ELSE BytesUpTo(n - 1) \cup
       { Append(b, x) : b \in { c \in BytesUpTo(n - 1) : Len(c) = n - 1 }, x \in CodecBytes }

\* the buffers given to bufferToBase64: short ones of every length up to
\* MaxBytes, and the salts and ivs lock draws
CodecInputs == BytesUpTo(MaxBytes) \cup Salts \cup IVs

\* bufferToBase64(buffer)
ProbeEncode(buffer) ==
  /\ probe.phase = "idle"
  /\ probe' = [ probe EXCEPT !.phase = "encoded", !.data = buffer,
                             !.artifact = Some(bufferToBase64(buffer)) ]
  /\ UNCHANGED appVars

\* base64ToBuffer of the text bufferToBase64 returned
ProbeDecode ==
  /\ probe.phase = "encoded"
  /\ probe' = [ probe EXCEPT !.phase = "decoded",
                             !.result = Some(base64ToBuffer(probe.artifact)) ]
  /\ UNCHANGED appVars

CodecNext ==
  \/ \E buffer \in CodecInputs : ProbeEncode(buffer)
  \/ ProbeDecode
  \/ ProbeReset

CodecSpec == Init /\ [][CodecNext]_vars

\* C36 (codec round trip): base64ToBuffer(bufferToBase64(b)) does not throw
\* and yields exactly the bytes of b, for buffers of every length (padding
\* of two, one and no characters) and byte values over the whole range.
C36_Base64RoundTrip ==
  probe.phase = "decoded" =>
    /\ ProbeOutcome.ok
    /\ ProbeOutcome.value = probe.data
    /\ Len(probe.artifact[1]) = 4 * ((Len(probe.data) + 2) \div 3)

\* two bytes, the first 255: the text ends with one padding character and
\* decodes to the two bytes
C36_Witness ==
  /\ probe.phase = "decoded"
  /\ Len(probe.data) = 2
  /\ probe.data[1] = 255
  /\ probe.artifact[1][4] = PadChar
  /\ ProbeOutcome.ok
  /\ ProbeOutcome.value = probe.data

====
